---- MODULE Spec2Model ----
(***************************************************************************)
(* Model of the ETL pipeline of the AI adoption dashboard:                 *)
(* DataProcessor (src/ai-adoption-dashboard/src/data_processor.py), and of *)
(* MetricsEngine.get_retention_matrix (src/ai-adoption-dashboard/src/      *)
(* metrics.py).                                                            *)
(*                                                                         *)
(* Text is modelled as a sequence of one-character strings, so that        *)
(* lower(), strip(), substring search, the regular expressions and the     *)
(* date parsers are computed character by character as the code does.      *)
(* A CSV cell is either such a text, an integer, or NaN (a blank cell).    *)
(***************************************************************************)
EXTENDS Integers, Sequences, FiniteSets, TLC

VARIABLES employee_file, employee_map, debug_log, pc, call, result, calls,
          engine_df, retention

vars == <<employee_file, employee_map, debug_log, pc, call, result, calls,
          engine_df, retention>>

-----------------------------------------------------------------------------
(* Characters and the str methods the code uses *)

UpperLetters == <<"A","B","C","D","E","F","G","H","I","J","K","L","M",
                  "N","O","P","Q","R","S","T","U","V","W","X","Y","Z">>

LowerLetters == <<"a","b","c","d","e","f","g","h","i","j","k","l","m",
                  "n","o","p","q","r","s","t","u","v","w","x","y","z">>

Digits == <<"0","1","2","3","4","5","6","7","8","9">>

\* The characters of the model in code point order: the order Python compares
\* strings by, which is the order groupby sorts the Email key in.
CodePoints == <<" ", "-", ".">> \o Digits \o <<"@">> \o UpperLetters
              \o <<"_">> \o LowerLetters

Range(s) == {s[i] : i \in DOMAIN s}

IndexOf(s, c) == CHOOSE i \in DOMAIN s : s[i] = c

IsUpper(c) == c \in Range(UpperLetters)

IsLower(c) == c \in Range(LowerLetters)

IsAlpha(c) == IsUpper(c) \/ IsLower(c)

IsDigit(c) == c \in Range(Digits)

IsSpace(c) == c = " "

DigitVal(c) == IndexOf(Digits, c) - 1

LowerChar(c) == IF IsUpper(c) THEN LowerLetters[IndexOf(UpperLetters, c)] ELSE c

UpperChar(c) == IF IsLower(c) THEN UpperLetters[IndexOf(LowerLetters, c)] ELSE c

\* str.lower()
Lower(s) == [i \in DOMAIN s |-> LowerChar(s[i])]

\* str.strip(): leading and trailing whitespace removed
Strip(s) ==
    LET keep == {i \in DOMAIN s : ~IsSpace(s[i])}
    IN  IF keep = {} THEN <<>>
        ELSE LET lo == CHOOSE i \in keep : \A j \in keep : i <= j
                 hi == CHOOSE i \in keep : \A j \in keep : j <= i
             IN  SubSeq(s, lo, hi)

\* sub in s
Contains(s, sub) ==
    \E i \in 0..(Len(s) - Len(sub)) : SubSeq(s, i + 1, i + Len(sub)) = sub

\* s.split('@')[0]
BeforeAt(s) ==
    IF "@" \in Range(s)
    THEN LET i == CHOOSE k \in DOMAIN s : s[k] = "@" /\ \A j \in 1..(k - 1) : s[j] # "@"
         IN  SubSeq(s, 1, i - 1)
    ELSE s

\* s.replace('.', ' ')
DotsToSpaces(s) == [i \in DOMAIN s |-> IF s[i] = "." THEN " " ELSE s[i]]

\* str.title(): a letter that follows a non-letter is upper-cased, a letter that
\* follows a letter is lower-cased
Title(s) ==
    [i \in DOMAIN s |->
        IF i = 1 \/ ~IsAlpha(s[IF i = 1 THEN 1 ELSE i - 1])
        THEN UpperChar(s[i]) ELSE LowerChar(s[i])]

\* the order of Python's str comparison (code points, then length)
RECURSIVE StrLess(_, _)
StrLess(a, b) ==
    IF b = <<>> THEN FALSE
    ELSE IF a = <<>> THEN TRUE
    ELSE IF a[1] = b[1] THEN StrLess(Tail(a), Tail(b))
    ELSE IndexOf(CodePoints, a[1]) < IndexOf(CodePoints, b[1])

-----------------------------------------------------------------------------
(* Regular expressions of data_processor.py *)

FirstAt(s) == CHOOSE k \in DOMAIN s : s[k] = "@" /\ \A j \in 1..(k - 1) : s[j] # "@"

\* str.match(r'^[^@]+@[^@]+\.[^@]+'): a match at the start, not to the end
EmailShape(s) ==
    /\ "@" \in Range(s)
    /\ LET i == FirstAt(s)
           t == SubSeq(s, i + 1, Len(s))
       IN  /\ i >= 2
           /\ \E j \in 2..(Len(t) - 1) :
                /\ t[j] = "."
                /\ t[j + 1] # "@"
                /\ \A k \in 1..(j - 1) : t[k] # "@"

\* re.match(r'^\d{1,2}-[A-Z][a-z]{2}', c): a match at the start
DateHeaderAt(c, n) ==
    /\ Len(c) >= n + 4
    /\ \A k \in 1..n : IsDigit(c[k])
    /\ c[n + 1] = "-"
    /\ IsUpper(c[n + 2])
    /\ IsLower(c[n + 3])
    /\ IsLower(c[n + 4])

IsDateHeader(c) == DateHeaderAt(c, 1) \/ DateHeaderAt(c, 2)

\* mutant: the last match
YearMatch_Last(filename) ==
    LET hits == {i \in 1..(Len(filename) - 3) :
                    /\ filename[i] = "2"
                    /\ filename[i + 1] = "0"
                    /\ IsDigit(filename[i + 2])
                    /\ IsDigit(filename[i + 3])}
    IN  IF hits = {} THEN <<>>
        ELSE LET i == CHOOSE h \in hits : \A g \in hits : h >= g
             IN  SubSeq(filename, i, i + 3)

\* re.search(r'20\d{2}', filename): the first match, or <<>> for None
YearMatch(filename) ==
    LET hits == {i \in 1..(Len(filename) - 3) :
                    /\ filename[i] = "2"
                    /\ filename[i + 1] = "0"
                    /\ IsDigit(filename[i + 2])
                    /\ IsDigit(filename[i + 3])}
    IN  IF hits = {} THEN <<>>
        ELSE LET i == CHOOSE h \in hits : \A g \in hits : h <= g
             IN  SubSeq(filename, i, i + 3)

-----------------------------------------------------------------------------
(* Dates *)

\* a date
Day(y, m, d) == [y |-> y, m |-> m, d |-> d]

\* pandas' NaT
NaT == [y |-> 0, m |-> 0, d |-> 0]

MonthNames == << <<"j","a","n">>, <<"f","e","b">>, <<"m","a","r">>, <<"a","p","r">>,
                 <<"m","a","y">>, <<"j","u","n">>, <<"j","u","l">>, <<"a","u","g">>,
                 <<"s","e","p">>, <<"o","c","t">>, <<"n","o","v">>, <<"d","e","c">> >>

IsLeap(y) == (y % 4 = 0 /\ y % 100 # 0) \/ y % 400 = 0

DaysInMonth(y, m) ==
    IF m = 2 THEN (IF IsLeap(y) THEN 29 ELSE 28)
    ELSE IF m \in {4, 6, 9, 11} THEN 30 ELSE 31

RECURSIVE ToInt(_)
ToInt(ds) == IF ds = <<>> THEN 0
             ELSE 10 * ToInt(SubSeq(ds, 1, Len(ds) - 1)) + DigitVal(ds[Len(ds)])

AllDigits(ds) == \A i \in DOMAIN ds : IsDigit(ds[i])

MkDate(y, m, d) ==
    IF m \in 1..12 /\ d >= 1 /\ d <= DaysInMonth(y, m)
    THEN [y |-> y, m |-> m, d |-> d] ELSE NaT

\* strptime with format '%d-%b-%Y' on the whole text; NaT when it does not parse
\* (errors='coerce')
ParseDayMonYear(s) ==
    LET n == IF Len(s) >= 2 /\ IsDigit(s[2]) THEN 2 ELSE 1
    IN  IF /\ Len(s) = n + 9
           /\ AllDigits(SubSeq(s, 1, n))
           /\ s[n + 1] = "-"
           /\ Lower(SubSeq(s, n + 2, n + 4)) \in Range(MonthNames)
           /\ s[n + 5] = "-"
           /\ AllDigits(SubSeq(s, n + 6, n + 9))
        THEN MkDate(ToInt(SubSeq(s, n + 6, n + 9)),
                    IndexOf(MonthNames, Lower(SubSeq(s, n + 2, n + 4))),
                    ToInt(SubSeq(s, 1, n)))
        ELSE NaT

\* The ISO shape YYYY-MM-DD of a period_start cell
IsIsoDate(s) ==
    /\ Len(s) = 10
    /\ AllDigits(SubSeq(s, 1, 4)) /\ s[5] = "-"
    /\ AllDigits(SubSeq(s, 6, 7)) /\ s[8] = "-"
    /\ AllDigits(SubSeq(s, 9, 10))
    /\ MkDate(ToInt(SubSeq(s, 1, 4)), ToInt(SubSeq(s, 6, 7)), ToInt(SubSeq(s, 9, 10))) # NaT

ParseIso(s) == MkDate(ToInt(SubSeq(s, 1, 4)), ToInt(SubSeq(s, 6, 7)), ToInt(SubSeq(s, 9, 10)))

DateLess(a, b) ==
    \/ a.y < b.y
    \/ a.y = b.y /\ a.m < b.m
    \/ a.y = b.y /\ a.m = b.m /\ a.d < b.d


-----------------------------------------------------------------------------
(* CSV cells and pandas' numeric conversions *)

Num(n) == [k |-> "num", n |-> n, s |-> <<>>]

NaN == [k |-> "nan", n |-> 0, s |-> <<>>]

Str(s) == [k |-> "str", n |-> 0, s |-> s]

RECURSIVE NatToStr(_)
NatToStr(n) == IF n < 10 THEN <<Digits[n + 1]>>
               ELSE NatToStr(n \div 10) \o <<Digits[(n % 10) + 1]>>

\* astype(str) / str(): the text of a cell; a blank cell reads 'nan'
AsStr(c) ==
    CASE c.k = "str" -> c.s
      [] c.k = "nan" -> <<"n","a","n">>
      [] c.k = "num" -> IF c.n < 0 THEN <<"-">> \o NatToStr(0 - c.n) ELSE NatToStr(c.n)

\* pd.to_numeric(x, errors='coerce'): a number, or NaN for a blank or a text
\* that is no number
ToNumeric(c) ==
    CASE c.k = "num" -> c
      [] c.k = "nan" -> NaN
      [] c.k = "str" -> IF c.s # <<>> /\ AllDigits(c.s) THEN Num(ToInt(c.s)) ELSE NaN

\* float arithmetic and comparison: NaN propagates, and compares False
NumAdd(a, b) == IF a.k = "num" /\ b.k = "num" THEN Num(a.n + b.n) ELSE NaN

NumSub(a, b) == IF a.k = "num" /\ b.k = "num" THEN Num(a.n - b.n) ELSE NaN

NumLess(a, b) == a.k = "num" /\ b.k = "num" /\ a.n < b.n

NumPositive(a) == a.k = "num" /\ a.n > 0

NumNegative(a) == a.k = "num" /\ a.n < 0

\* next((i for c in columns if P(c)), None) as a column index, 0 for None
FirstIndex(S) == IF S = {} THEN 0 ELSE CHOOSE i \in S : \A j \in S : i <= j

\* row.get(name, default)
RowGet(columns, row, name, default) ==
    LET i == FirstIndex({j \in DOMAIN columns : columns[j] = name})
    IN  IF i = 0 THEN default ELSE row[i]

-----------------------------------------------------------------------------
(* Literals of data_processor.py *)

Unassigned == <<"U","n","a","s","s","i","g","n","e","d">>

\* str(datetime.datetime.now().year), the clock of the run
CurrentYear == <<"2","0","2","6">>

blacklist == { <<"t","o","t","a","l">>, <<"s","u","m">>,
               <<"a","v","e","r","a","g","e">>, <<"c","o","u","n","t">> }

kw_total == <<"t","o","t","a","l">>

kw_email == <<"e","m","a","i","l">>

kw_function == <<"f","u","n","c","t","i","o","n">>

kw_department == <<"d","e","p","a","r","t","m","e","n","t">>

kw_user == <<"u","s","e","r">>

kw_id == <<"i","d">>

kw_nan == <<"n","a","n">>

col_period_start == <<"p","e","r","i","o","d","_","s","t","a","r","t">>

col_messages == <<"m","e","s","s","a","g","e","s">>

col_tool_messages == <<"t","o","o","l","_">> \o col_messages

col_gpt_messages == <<"g","p","t","_">> \o col_messages

col_project_messages == <<"p","r","o","j","e","c","t","_">> \o col_messages

\* _get_empty_schema
Schema == <<"Date", "Email", "Name", "Department", "Tool", "Feature", "Count">>

EmptyMap == <<>>

LogEntry(kind, n, file) == [kind |-> kind, n |-> n, file |-> file]


-----------------------------------------------------------------------------------------------------------------------------------------------------
(* DataProcessor.__init__ and _load_employee_mapping *)

\* mutant: a missing key is not filled with the default
MapGet_NoDefault(map, key, default) == IF key \in DOMAIN map THEN map[key] ELSE <<>>

\* mutant: a key with the same local part is taken for the identity
MapGet_LocalPart(map, key, default) ==
    IF \E k \in DOMAIN map : BeforeAt(k) = BeforeAt(key)
    THEN map[CHOOSE k \in DOMAIN map : BeforeAt(k) = BeforeAt(key)]
    ELSE default

\* dict.get(key, default)
MapGet(map, key, default) == IF key \in DOMAIN map THEN map[key] ELSE default

StripAll(columns) == [i \in DOMAIN columns |-> Strip(columns[i])]

\* mutant: the first column when no name contains 'email'
EmailCol_FirstColumn(columns) ==
    IF \E i \in DOMAIN columns : Contains(Lower(columns[i]), kw_email)
    THEN FirstIndex({i \in DOMAIN columns : Contains(Lower(columns[i]), kw_email)})
    ELSE 1

\* email_col: the first column whose name contains 'email'
EmailCol(columns) ==
    FirstIndex({i \in DOMAIN columns : Contains(Lower(columns[i]), kw_email)})

ColumnWith(columns, word) ==
    FirstIndex({i \in DOMAIN columns : Contains(Lower(columns[i]), word)})

\* func_col: the first column whose name contains 'function', else 'department'
FuncCol(columns) ==
    IF ColumnWith(columns, kw_function) # 0 THEN ColumnWith(columns, kw_function)
    ELSE ColumnWith(columns, kw_department)

\* mutant: keep='first'
RosterKept_First(emails) ==
    {i \in DOMAIN emails : \A j \in DOMAIN emails : j < i => emails[j] # emails[i]}

\* drop_duplicates(subset=[email_col], keep='last'): the indices of the rows kept
RosterKept(emails) ==
    {i \in DOMAIN emails : \A j \in DOMAIN emails : j > i => emails[j] # emails[i]}

\* dict(zip(keys, values)) over the rows kept: a later pair overwrites an earlier one
DictZip(emails, depts, kept) ==
    [e \in {emails[i] : i \in kept} |->
        depts[CHOOSE i \in kept : emails[i] = e /\ \A j \in kept : emails[j] = e => j <= i]]

\* df[email_col].astype(str).str.lower().str.strip()
RosterEmails(rows, email_col) ==
    [i \in DOMAIN rows |-> Strip(Lower(AsStr(rows[i][email_col])))]

\* df[func_col].astype(str).str.strip()
RosterDepts(rows, func_col) == [i \in DOMAIN rows |-> Strip(AsStr(rows[i][func_col]))]

Mapped(map) == [map |-> map, log |-> <<LogEntry("emp_mapped", Cardinality(DOMAIN map), <<>>)>>]

NotMapped(kind) == [map |-> EmptyMap, log |-> <<LogEntry(kind, 0, <<>>)>>]

BuildMap(emails, depts) == Mapped(DictZip(emails, depts, RosterKept(emails)))

LoadColumns(rows, columns) ==
    IF EmailCol(columns) = 0 \/ FuncCol(columns) = 0
    THEN NotMapped("emp_column_missing")
    ELSE BuildMap(RosterEmails(rows, EmailCol(columns)), RosterDepts(rows, FuncCol(columns)))

\* a file that cannot be read in either encoding raises, which is caught and logged
_load_employee_mapping(file) ==
    IF ~file.readable THEN NotMapped("emp_error")
    ELSE LoadColumns(file.df.rows, StripAll(file.df.columns))

\* DataProcessor.__init__(employee_file_path): employee_map and debug_log
DataProcessorInit(file) ==
    IF file.given
    THEN IF file.exists THEN _load_employee_mapping(file)
         ELSE NotMapped("emp_not_found")
    ELSE NotMapped("emp_no_path")

-----------------------------------------------------------------------------
(* process_blueflame: a wide-format export, one column per day *)

EmptyTable(log) == [columns |-> Schema, rows |-> <<>>, log |-> log]

Table(rows) == [columns |-> Schema, rows |-> rows, log |-> <<>>]

\* mutant: the local part as it is
NameOf_LocalPart(email) == BeforeAt(email)

\* email.split('@')[0].replace('.', ' ').title()
NameOf(email) == Title(DotsToSpaces(BeforeAt(email)))

Record(date, email, dept, tool, feature, count) ==
    [Date |-> date, Email |-> email, Name |-> NameOf(email), Department |-> dept,
     Tool |-> tool, Feature |-> feature, Count |-> count]

\* date_cols: the columns whose name matches the date pattern
BfDateCols(columns) == {i \in DOMAIN columns : IsDateHeader(columns[i])}

\* user_col: the first column with 'user' and 'id' in its name, else with 'email'
BfUserIdCol(columns) ==
    FirstIndex({i \in DOMAIN columns :
                   Contains(Lower(columns[i]), kw_user) /\ Contains(Lower(columns[i]), kw_id)})

BfUserCol(columns) ==
    IF BfUserIdCol(columns) # 0 THEN BfUserIdCol(columns) ELSE EmailCol(columns)

\* mutant: the filter Count > 0 is missing
BfCountKept_NoFilter(cell) == cell.k # "nan"

\* dropna, to_numeric(errors='coerce').fillna(0), and the filter Count > 0
BfCountKept(cell) == cell.k # "nan" /\ NumPositive(ToNumeric(cell))

\* mutant: the year in the file name is ignored
BfYear_ClockOnly(filename) == CurrentYear

\* the year appended to a date header
BfYear(filename) == IF YearMatch(filename) # <<>> THEN YearMatch(filename) ELSE CurrentYear

BfDate(header, filename) == ParseDayMonYear(Strip(header) \o <<"-">> \o BfYear(filename))

\* mutant: the identity is trimmed but not lowercased
BfEmail_NoLower(cell) == Strip(AsStr(cell))

\* df[user_col].astype(str).str.lower().str.strip()
BfEmail(cell) == Strip(Lower(AsStr(cell)))

\* the filters on the identity: not 'nan', not empty, no blacklisted word, email shape
BfEmailKept(email) ==
    /\ email # kw_nan
    /\ email # <<>>
    /\ \A w \in blacklist : ~Contains(Lower(email), w)
    /\ EmailShape(email)

\* melt and the filters: the cells <<row, column>> still in melted before groupby
BfMelted(rows, date_cols, user_col) ==
    {c \in (DOMAIN rows) \X date_cols :
        /\ BfCountKept(rows[c[1]][c[2]])
        /\ BfEmailKept(BfEmail(rows[c[1]][user_col]))}

\* the groupby key of a cell: Date and Email (Name, Department, Tool and Feature
\* are functions of Email)
BfKeyOf(rows, columns, filename, user_col, c) ==
    <<BfDate(columns[c[2]], filename), BfEmail(rows[c[1]][user_col])>>

BfKeyLess(a, b) == DateLess(a[1], b[1]) \/ (a[1] = b[1] /\ StrLess(a[2], b[2]))

RECURSIVE BfSortKeys(_)
BfSortKeys(K) ==
    IF K = {} THEN <<>>
    ELSE <<CHOOSE a \in K : \A b \in K : a = b \/ BfKeyLess(a, b)>>
         \o BfSortKeys(K \ {CHOOSE a \in K : \A b \in K : a = b \/ BfKeyLess(a, b)})

\* groupby sorts by key and drops the groups whose Date is NaT
BfGroupKeys(rows, columns, filename, user_col, melted) ==
    BfSortKeys({k \in {BfKeyOf(rows, columns, filename, user_col, c) : c \in melted} :
                   k[1] # NaT})

\* mutant: first() of one group instead of sum()
BfSum_First(cells, rows) ==
    ToNumeric(rows[(CHOOSE x \in cells : \A y \in cells : x[1] <= y[1])[1]]
                  [(CHOOSE x \in cells : \A y \in cells : x[1] <= y[1])[2]]).n

\* ['Count'].sum() of one group
RECURSIVE BfSum(_, _)
BfSum(cells, rows) ==
    IF cells = {} THEN 0
    ELSE ToNumeric(rows[(CHOOSE x \in cells : TRUE)[1]][(CHOOSE x \in cells : TRUE)[2]]).n
         + BfSum(cells \ {CHOOSE x \in cells : TRUE}, rows)

BfGrouped(map, rows, columns, filename, user_col, melted, keys) ==
    [i \in DOMAIN keys |->
        Record(keys[i][1], keys[i][2], MapGet(map, keys[i][2], Unassigned),
               "BlueFlame", "BlueFlame Messages",
               BfSum({c \in melted : BfKeyOf(rows, columns, filename, user_col, c) = keys[i]},
                     rows))]

BfGroupBy(map, rows, columns, filename, user_col, melted) ==
    BfGrouped(map, rows, columns, filename, user_col, melted,
              BfGroupKeys(rows, columns, filename, user_col, melted))

BfProcess(map, rows, columns, filename) ==
    IF BfDateCols(columns) = {} THEN EmptyTable(<<LogEntry("bf_no_date_columns", 0, filename)>>)
    ELSE IF BfUserCol(columns) = 0 THEN EmptyTable(<<>>)
    ELSE Table(BfGroupBy(map, rows, columns, filename, BfUserCol(columns),
                         BfMelted(rows, BfDateCols(columns), BfUserCol(columns))))

process_blueflame(map, df, filename) == BfProcess(map, df.rows, StripAll(df.columns), filename)

-----------------------------------------------------------------------------
(* process_openai: a long-format export, one row per user and period *)

\* df.columns = [c.lower().strip() for c in df.columns]
LowerStripAll(columns) == [i \in DOMAIN columns |-> Strip(Lower(columns[i]))]

\* str(row.get('email', '')).lower().strip()
OaiEmail(columns, row) == Strip(Lower(AsStr(RowGet(columns, row, kw_email, Str(<<>>)))))

\* if not email or '@' not in email: continue / if 'total' in email.lower(): continue
OaiEmailKept(email) ==
    /\ email # <<>>
    /\ "@" \in Range(email)
    /\ ~Contains(Lower(email), kw_total)

\* pd.to_datetime(row.get('period_start')) raises on a text that is no date.
\* The period_start cells of the model are ISO dates, texts that are no date,
\* and blanks.
OaiDateRaises(cell) == cell.k = "str" /\ ~IsIsoDate(cell.s)

\* pd.to_datetime of a blank cell is NaT and of None, for a missing column, is
\* None: a null Date either way, NaT once the records are a table
OaiDate(cell) ==
    CASE cell.k = "str" -> ParseIso(cell.s)
      [] cell.k = "nan" -> NaT

\* mutant: the sub-metrics are never subtracted
StandardChatSwitch_NeverSubtract(total_msgs, sub_total) == total_msgs

\* mutant: the sub-metrics are always subtracted
StandardChatSwitch_AlwaysSubtract(total_msgs, sub_total) == NumSub(total_msgs, sub_total)

\* the inclusive/exclusive switch
StandardChatSwitch(total_msgs, sub_total) ==
    IF NumLess(total_msgs, sub_total) THEN total_msgs ELSE NumSub(total_msgs, sub_total)

\* the safety clamp
Clamp(standard_chat_count) ==
    IF NumNegative(standard_chat_count) THEN Num(0) ELSE standard_chat_count

\* mutant: sub_total leaves out project_messages
StandardChatCount_NoProject(total_msgs, tool_msgs, gpt_msgs, project_msgs) ==
    Clamp(StandardChatSwitch(total_msgs, NumAdd(tool_msgs, gpt_msgs)))

\* sub_total = tool_msgs + gpt_msgs + project_msgs, the switch, the clamp
StandardChatCount(total_msgs, tool_msgs, gpt_msgs, project_msgs) ==
    Clamp(StandardChatSwitch(total_msgs, NumAdd(NumAdd(tool_msgs, gpt_msgs), project_msgs)))

\* mutant: the long-format records carry the Tool of the wide-format files
OaiEmit_WideTool(date, email, dept, feature, count) ==
    IF NumPositive(count) THEN <<Record(date, email, dept, "BlueFlame", feature, count.n)>>
    ELSE <<>>

\* if count > 0: records.append(...)
OaiEmit(date, email, dept, feature, count) ==
    IF NumPositive(count) THEN <<Record(date, email, dept, "ChatGPT", feature, count.n)>>
    ELSE <<>>

\* pd.to_numeric(row.get(name, 0), errors='coerce')
OaiMetric(columns, row, name) == ToNumeric(RowGet(columns, row, name, Num(0)))

OaiFanOut(date, email, dept, total_msgs, tool_msgs, gpt_msgs, project_msgs) ==
    OaiEmit(date, email, dept, "Standard Chat",
            StandardChatCount(total_msgs, tool_msgs, gpt_msgs, project_msgs))
    \o OaiEmit(date, email, dept, "Tool Messages", tool_msgs)
    \o OaiEmit(date, email, dept, "GPT Messages", gpt_msgs)
    \o OaiEmit(date, email, dept, "Project Messages", project_msgs)

\* the body of the loop over df.iterrows(): the records one row appends
OaiRowRecords(map, columns, row) ==
    IF ~OaiEmailKept(OaiEmail(columns, row)) THEN <<>>
    ELSE IF OaiDateRaises(RowGet(columns, row, col_period_start, NaN)) THEN <<>>
    ELSE OaiFanOut(OaiDate(RowGet(columns, row, col_period_start, NaN)),
                   OaiEmail(columns, row),
                   MapGet(map, OaiEmail(columns, row), Unassigned),
                   OaiMetric(columns, row, col_messages),
                   OaiMetric(columns, row, col_tool_messages),
                   OaiMetric(columns, row, col_gpt_messages),
                   OaiMetric(columns, row, col_project_messages))

RECURSIVE OaiRecords(_, _, _)
OaiRecords(map, columns, rows) ==
    IF rows = <<>> THEN <<>>
    ELSE OaiRowRecords(map, columns, Head(rows)) \o OaiRecords(map, columns, Tail(rows))

\* mutant: pd.DataFrame(records) of no record, a table without columns
OaiTable_NoGuard(records) == [columns |-> IF records = <<>> THEN <<>> ELSE Schema,
                              rows |-> records, log |-> <<>>]

\* if not records: return self._get_empty_schema(); pd.DataFrame(records) has
\* the keys of the records as its columns
OaiTable(records) == IF records = <<>> THEN EmptyTable(<<>>) ELSE Table(records)

process_openai(map, df, filename) ==
    OaiTable(OaiRecords(map, LowerStripAll(df.columns), df.rows))

-----------------------------------------------------------------------------
(* get_unified_data *)

DedupKey(r) == <<r.Date, r.Email, r.Tool, r.Feature>>

\* mutant: drop_duplicates() without subset, whole rows compared
DedupKept_WholeRow(rows) ==
    {i \in DOMAIN rows : \A j \in 1..(i - 1) : rows[j] # rows[i]}

\* mutant: keep='last'
DedupKept_Last(rows) ==
    {i \in DOMAIN rows : \A j \in (i + 1)..Len(rows) : DedupKey(rows[j]) # DedupKey(rows[i])}

\* mutant: keep=False, every row that has a duplicate is dropped
DedupKept_KeepNone(rows) ==
    {i \in DOMAIN rows : \A j \in DOMAIN rows : j # i => DedupKey(rows[j]) # DedupKey(rows[i])}

\* drop_duplicates(subset=['Date', 'Email', 'Tool', 'Feature']), keep='first':
\* the indices of the rows kept
DedupKept(rows) ==
    {i \in DOMAIN rows : \A j \in 1..(i - 1) : DedupKey(rows[j]) # DedupKey(rows[i])}

RECURSIVE Select(_, _)
Select(rows, kept) ==
    IF rows = <<>> THEN <<>>
    ELSE IF Len(rows) \in kept
         THEN Append(Select(SubSeq(rows, 1, Len(rows) - 1), kept), rows[Len(rows)])
         ELSE Select(SubSeq(rows, 1, Len(rows) - 1), kept)

drop_duplicates(rows) == Select(rows, DedupKept(rows))

\* what one file adds to dfs and to debug_log
Processed(t) == [dfs |-> <<[columns |-> t.columns, rows |-> t.rows]>>, log |-> t.log]

\* mutant: the exception is swallowed without a diagnostic
ReadError_Silent(kind, f) == [dfs |-> <<>>, log |-> <<>>]

\* except Exception as e: self.debug_log.append(f"Error processing ... {basename}: {e}")
ReadError(kind, f) == [dfs |-> <<>>, log |-> <<LogEntry(kind, 0, f.name)>>]

Join(a, b) == [dfs |-> a.dfs \o b.dfs, log |-> a.log \o b.log]

\* the body of the loop over bf_paths: read_csv_safe, then process_blueflame; an
\* exception is logged and the loop goes on
BfFile(map, f) ==
    IF ~f.readable THEN ReadError("bf_error", f)
    ELSE Processed(process_blueflame(map, f.df, f.name))

RECURSIVE BfPaths(_, _)
BfPaths(map, paths) ==
    IF paths = <<>> THEN [dfs |-> <<>>, log |-> <<>>]
    ELSE Join(BfFile(map, Head(paths)), BfPaths(map, Tail(paths)))

\* the body of the loop over openai_paths
OaiFile(map, f) ==
    IF ~f.readable THEN ReadError("openai_error", f)
    ELSE Processed(process_openai(map, f.df, f.name))

RECURSIVE OaiPaths(_, _)
OaiPaths(map, paths) ==
    IF paths = <<>> THEN [dfs |-> <<>>, log |-> <<>>]
    ELSE Join(OaiFile(map, Head(paths)), OaiPaths(map, Tail(paths)))

\* pd.concat(dfs, ignore_index=True)
RECURSIVE Concat(_)
Concat(dfs) == IF dfs = <<>> THEN <<>> ELSE Head(dfs).rows \o Concat(Tail(dfs))

\* the columns of pd.concat(dfs): those of the frames, in order of appearance
RECURSIVE ConcatColumns(_)
ConcatColumns(dfs) ==
    IF dfs = <<>> THEN <<>>
    ELSE ConcatColumns(SubSeq(dfs, 1, Len(dfs) - 1))
         \o SelectSeq(dfs[Len(dfs)].columns,
                      LAMBDA c : c \notin Range(ConcatColumns(SubSeq(dfs, 1, Len(dfs) - 1))))

\* if 'Feature' not in result.columns: result['Feature'] = 'Unknown'
WithFeature(columns) ==
    IF "Feature" \in Range(columns) THEN columns ELSE Append(columns, "Feature")

\* mutant: rows are removed without a diagnostic
Deduplicated_Silent(columns, initial, final, log) ==
    [columns |-> WithFeature(columns), rows |-> final, log |-> log]

\* the deduplicated table and the log entry when rows were removed
Deduplicated(columns, initial, final, log) ==
    [columns |-> WithFeature(columns), rows |-> final,
     log |-> IF Len(initial) # Len(final)
             THEN Append(log, LogEntry("removed_duplicates", Len(initial) - Len(final), <<>>))
             ELSE log]

Unify(dfs, log) ==
    IF dfs = <<>> THEN EmptyTable(log)
    ELSE Deduplicated(ConcatColumns(dfs), Concat(dfs), drop_duplicates(Concat(dfs)), log)

Unified(loaded) == Unify(loaded.dfs, loaded.log)

get_unified_data(map, bf_paths, openai_paths) ==
    Unified(Join(BfPaths(map, bf_paths), OaiPaths(map, openai_paths)))

-----
(* The inputs of the model: texts, cells, frames and files *)

alice_x_com == <<"a","l","i","c","e","@","x",".","c","o","m">>

bob_x_com == <<"b","o","b","@","x",".","c","o","m">>

j_doe_x_com == <<"j",".","d","o","e","@","x",".","c","o","m">>

Alice_X_com_padded == <<" ","A","l","i","c","e","@","X",".","c","o","m"," ">>

alice_no_at == <<"a","l","i","c","e">>

alice_no_dot == <<"a","l","i","c","e","@","x","c","o","m">>

total_x_com == <<"t","o","t","a","l","@","x",".","c","o","m">>

Total_row == <<"T","o","t","a","l">>

Sum_x_com == <<"S","u","m","@","x",".","c","o","m">>

average_x_com == <<"a","v","e","r","a","g","e","@","x",".","c","o","m">>

discount_x_com == <<"d","i","s","c","o","u","n","t","@","x",".","c","o","m">>

at_x_com == <<"@","x",".","c","o","m">>

Research == <<"R","e","s","e","a","r","c","h">>

Sales == <<"S","a","l","e","s">>

Sales_padded == <<" ","S","a","l","e","s"," ">>

hdr_User_ID == <<"U","s","e","r"," ","I","D">>

hdr_Email == <<"E","m","a","i","l">>

hdr_Email_padded == <<" ","E","m","a","i","l"," ">>

hdr_Function == <<"F","u","n","c","t","i","o","n">>

hdr_Department == <<"D","e","p","a","r","t","m","e","n","t">>

hdr_Work_Email == <<"W","o","r","k"," ","E","m","a","i","l">>

hdr_Name == <<"N","a","m","e">>

hdr_25_Oct == <<"2","5","-","O","c","t">>

hdr_1_Nov == <<"1","-","N","o","v">>

hdr_31_Feb == <<"3","1","-","F","e","b">>

hdr_25_Oct_padded == <<" ","2","5","-","O","c","t"," ">>

hdr_25_October == <<"2","5","-","O","c","t","o","b","e","r">>

hdr_Tool_Messages == <<"T","o","o","l"," ","M","e","s","s","a","g","e","s">>

hdr_Period_Start == <<"P","e","r","i","o","d"," ","S","t","a","r","t">>

hdr_Messages == <<"M","e","s","s","a","g","e","s">>

file_bf_2025 == <<"b","f","_","2","0","2","5",".","c","s","v">>

file_bf == <<"b","f",".","c","s","v">>

file_bf_2024_2025 == <<"b","f","_","2","0","2","4","_","2","0","2","5",".","c","s","v">>

file_bf_2025_b == <<"b","f","_","b","_","2","0","2","5",".","c","s","v">>

file_oa_oct == <<"o","a","_","o","c","t",".","c","s","v">>

file_oa_oct_b == <<"o","a","_","o","c","t","_","b",".","c","s","v">>

iso_2025_10_01 == <<"2","0","2","5","-","1","0","-","0","1">>

iso_2025_11_01 == <<"2","0","2","5","-","1","1","-","0","1">>

not_a_date == <<"n","-","a">>

abc == <<"a","b","c">>


\* Bounds of the input sets
MaxCount == 2

MaxRows == 2

MaxRosterRows == 2

MaxFiles == 2

MaxCalls == 2

SeqsUpTo(S, n) == UNION {[1..k -> S] : k \in 0..n}

\* no row is followed by a copy of itself
Alternating(rows) == \A i \in 1..(Len(rows) - 1) : rows[i] # rows[i + 1]

Frame(columns, rows) == [columns |-> columns, rows |-> rows]

File(name, readable, df) == [name |-> name, readable |-> readable, df |-> df]

EmptyFrame == Frame(<<>>, <<>>)

\* identity cells: well-formed, differing in case and blanks, of no email shape,
\* aggregate rows, and blank
IdentityCells ==
    {Str(alice_x_com), Str(bob_x_com), Str(j_doe_x_com), Str(Alice_X_com_padded),
     Str(alice_no_at), Str(alice_no_dot), Str(at_x_com), Str(total_x_com), Str(Total_row), Str(Sum_x_com),
     Str(average_x_com), Str(discount_x_com), NaN}

\* count cells: numbers from -1 to MaxCount, a blank, a text
Numbers == {Num(n) : n \in (0 - 1)..MaxCount}

CountCells == Numbers \cup {NaN, Str(abc)}


(* Roster files *)

EmployeeFile(given, exists, readable, df) ==
    [given |-> given, exists |-> exists, readable |-> readable, df |-> df]

\* rows of one employee, written in two ways, with two departments
RosterRows ==
    { <<Str(alice_x_com), Str(Research)>>, <<Str(Alice_X_com_padded), Str(Sales_padded)>> }

RosterFrames ==
    {Frame(<<hdr_Email, hdr_Function>>, rows) :
        rows \in {r \in SeqsUpTo(RosterRows, MaxRosterRows) : Alternating(r)}}
    \cup
    { \* two employees
      Frame(<<hdr_Email, hdr_Function>>,
            << <<Str(alice_x_com), Str(Research)>>, <<Str(bob_x_com), Str(Sales)>> >>),
      \* other header names; a Function column goes before a Department column
      Frame(<<hdr_Name, hdr_Work_Email, hdr_Department>>,
            << <<Str(abc), Str(alice_x_com), Str(Research)>>,
               <<Str(abc), Str(bob_x_com), Str(Sales)>> >>),
      Frame(<<hdr_Email, hdr_Department, hdr_Function>>,
            << <<Str(alice_x_com), Str(Sales), Str(Research)>> >>),
      \* a blank department cell, a blank identity cell
      Frame(<<hdr_Email, hdr_Function>>,
            << <<Str(alice_x_com), Str(Research)>>, <<Str(bob_x_com), NaN>>,
               <<NaN, Str(Sales)>> >>),
      \* no identity column, no department column
      Frame(<<hdr_Name, hdr_Function>>, << <<Str(abc), Str(Research)>> >>),
      Frame(<<hdr_Email, hdr_Name>>, << <<Str(alice_x_com), Str(abc)>> >>) }

EmployeeFiles ==
    {EmployeeFile(TRUE, TRUE, TRUE, df) : df \in RosterFrames}
    \cup { EmployeeFile(FALSE, FALSE, FALSE, EmptyFrame),  \* no path given
           EmployeeFile(TRUE, FALSE, FALSE, EmptyFrame),   \* the path does not exist
           EmployeeFile(TRUE, TRUE, FALSE, EmptyFrame) }   \* read_csv raises

(* Wide-format frames handed to process_blueflame *)

WideColumns == <<hdr_User_ID, hdr_25_Oct, hdr_1_Nov>>

WideRows ==
    {<<id, Num(MaxCount), NaN>> : id \in IdentityCells}
    \cup {<<Str(alice_x_com), v, w>> : v \in CountCells, w \in {NaN, Num(1)}}

\* rows of one user, written in two ways, and of a second user
WideSameUserRows ==
    { <<Str(alice_x_com), Num(1), NaN>>, <<Str(Alice_X_com_padded), Num(MaxCount), NaN>>,
      <<Str(bob_x_com), Num(1), Num(1)>> }

WideHeaderFrames ==
    { Frame(<<hdr_Email_padded, hdr_25_Oct_padded>>, << <<Str(alice_x_com), Num(1)>> >>),
      Frame(<<hdr_Email, hdr_User_ID, hdr_1_Nov>>,
            << <<Str(bob_x_com), Str(alice_x_com), Num(1)>> >>),
      Frame(<<hdr_Name, hdr_25_Oct>>, << <<Str(alice_x_com), Num(1)>> >>),
      Frame(<<hdr_User_ID, hdr_Name>>, << <<Str(alice_x_com), Num(1)>> >>),
      Frame(<<hdr_User_ID, hdr_31_Feb, hdr_25_Oct>>, << <<Str(alice_x_com), Num(1), Num(2)>> >>),
      Frame(<<hdr_User_ID, hdr_25_October>>, << <<Str(alice_x_com), Num(1)>> >>) }

BfInputs ==
    {File(file_bf_2025, TRUE, Frame(WideColumns, <<row>>)) : row \in WideRows}
    \cup {File(file_bf_2025, TRUE, Frame(WideColumns, rows)) :
             rows \in {r \in SeqsUpTo(WideSameUserRows, MaxRows) : Alternating(r)}}
    \cup {File(name, TRUE, df) :
             name \in {file_bf_2025, file_bf, file_bf_2024_2025}, df \in WideHeaderFrames}

(* Long-format frames handed to process_openai *)

LongColumns == <<kw_email, col_period_start, col_messages, col_tool_messages,
               col_gpt_messages, col_project_messages>>

MetricCells == Numbers \cup {NaN}

\* the rows of the two residual examples of the specification
LongExampleRows ==
    { <<Str(alice_x_com), Str(iso_2025_10_01), Num(100), Num(20), Num(10), Num(0)>>,
      <<Str(alice_x_com), Str(iso_2025_10_01), Num(10), Num(20), Num(0), Num(0)>> }

LongMetricRows ==
    {<<Str(alice_x_com), Str(iso_2025_10_01), t, a, b, Num(0)>> :
        t \in MetricCells, a \in Numbers, b \in {Num(0), Num(1), NaN}}
    \cup {<<Str(alice_x_com), Str(iso_2025_10_01), t, Num(1), Num(1), Num(MaxCount)>> :
             t \in MetricCells}
    \cup LongExampleRows

PeriodCells == {Str(iso_2025_10_01), Str(iso_2025_11_01), Str(not_a_date), NaN}

LongIdentityRows ==
    {<<id, Str(iso_2025_10_01), Num(MaxCount), Num(1), Num(0), Num(0)>> : id \in IdentityCells}
    \cup {<<Str(bob_x_com), p, Num(MaxCount), Num(1), Num(0), Num(0)>> : p \in PeriodCells}

LongSameUserRows ==
    { <<Str(alice_x_com), Str(iso_2025_10_01), Num(1), Num(0), Num(0), Num(0)>>,
      <<Str(Alice_X_com_padded), Str(iso_2025_10_01), Num(MaxCount), Num(0), Num(0), Num(0)>>,
      <<Str(bob_x_com), Str(iso_2025_11_01), Num(1), Num(1), Num(0), Num(0)>> }

LongHeaderFrames ==
    { Frame(<<hdr_Email_padded, hdr_Period_Start, hdr_Messages, hdr_Tool_Messages>>,
            << <<Str(alice_x_com), Str(iso_2025_10_01), Num(2), Num(1)>> >>),
      Frame(<<hdr_Name, col_period_start, col_messages>>,
            << <<Str(alice_x_com), Str(iso_2025_10_01), Num(2)>> >>),
      Frame(<<kw_email, col_messages>>, << <<Str(alice_x_com), Num(2)>> >>),
      Frame(<<kw_email, col_period_start, col_messages>>,
            << <<Str(alice_x_com), Str(iso_2025_10_01), Num(2)>> >>),
      Frame(<<kw_email, col_period_start, col_messages, col_tool_messages>>,
            << <<Str(alice_x_com), Str(iso_2025_10_01), Num(2), Str(abc)>> >>),
      Frame(<<kw_email, col_period_start, col_tool_messages>>,
            << <<Str(alice_x_com), Str(iso_2025_10_01), Num(1)>> >>) }

OaInputs ==
    {File(file_oa_oct, TRUE, Frame(LongColumns, <<row>>)) : row \in LongMetricRows \cup LongIdentityRows}
    \cup {File(file_oa_oct, TRUE, Frame(LongColumns, rows)) :
             rows \in {r \in SeqsUpTo(LongSameUserRows, MaxRows) : Alternating(r)}}
    \cup {File(file_oa_oct, TRUE, df) : df \in LongHeaderFrames}

(* Files on disk handed to get_unified_data *)

BfScenarioFile ==
    File(file_bf_2025, TRUE, Frame(<<hdr_User_ID, hdr_25_Oct>>, << <<Str(alice_x_com), Num(5)>> >>))

OaScenarioFile ==
    File(file_oa_oct, TRUE,
         Frame(<<kw_email, col_period_start, col_messages, col_tool_messages>>,
               << <<Str(bob_x_com), Str(iso_2025_10_01), Num(12), Num(2)>> >>))

DiskBf ==
    { BfScenarioFile,
      \* the same user and day again with another count, and a second user
      File(file_bf_2025_b, TRUE,
           Frame(<<hdr_User_ID, hdr_25_Oct>>,
                 << <<Str(Alice_X_com_padded), Num(3)>>, <<Str(bob_x_com), Num(1)>> >>)),
      \* cannot be read
      File(file_bf_2025, FALSE, EmptyFrame),
      \* no date column
      File(file_bf_2025, TRUE, Frame(<<hdr_User_ID, hdr_Name>>, << <<Str(alice_x_com), Num(5)>> >>)) }

DiskOpenai ==
    { OaScenarioFile,
      \* cannot be read
      File(file_oa_oct_b, FALSE, EmptyFrame),
      \* no email column
      File(file_oa_oct, TRUE,
           Frame(<<hdr_Name, col_period_start, col_messages>>,
                 << <<Str(alice_x_com), Str(iso_2025_10_01), Num(2)>> >>)) }

PathLists ==
    {p \in SeqsUpTo(DiskBf, MaxFiles) \X SeqsUpTo(DiskOpenai, MaxFiles) :
        Len(p[1]) + Len(p[2]) <= MaxFiles}

-----------------------------------------------------------------------------
(* The state machine: a DataProcessor is constructed on a roster file, then  *)
(* one of its methods is called, as load_data does.                         *)

NoCall == [op |-> "none", df |-> EmptyFrame, filename |-> <<>>,
           bf_paths |-> <<>>, openai_paths |-> <<>>]

Init ==
    \E f \in EmployeeFiles :
        /\ employee_file = f
        /\ employee_map = DataProcessorInit(f).map
        /\ debug_log = DataProcessorInit(f).log
        /\ pc = "ready"
        /\ call = NoCall
        /\ result = [columns |-> <<>>, rows |-> <<>>]
        /\ calls = 0
        /\ engine_df = <<>>
        /\ retention = [columns |-> <<>>, rows |-> <<>>]

\* mutant: a call leaves the processor without its roster map
Returns_ClearsMap(t, c) ==
    /\ result' = [columns |-> t.columns, rows |-> t.rows]
    /\ debug_log' = debug_log \o t.log
    /\ call' = c
    /\ pc' = "returned"
    /\ calls' = calls + 1
    /\ employee_map' = EmptyMap
    /\ UNCHANGED <<employee_file, engine_df, retention>>

\* a call returns: the table, the diagnostics appended, the record of the call
Returns(t, c) ==
    /\ result' = [columns |-> t.columns, rows |-> t.rows]
    /\ debug_log' = debug_log \o t.log
    /\ call' = c
    /\ pc' = "returned"
    /\ calls' = calls + 1
    /\ UNCHANGED <<employee_file, employee_map, engine_df, retention>>

ProcessBlueflame ==
    /\ pc = "ready"
    /\ \E f \in BfInputs :
        Returns(process_blueflame(employee_map, f.df, f.name),
                [NoCall EXCEPT !.op = "process_blueflame", !.df = f.df, !.filename = f.name])

ProcessOpenai ==
    /\ pc = "ready"
    /\ \E f \in OaInputs :
        Returns(process_openai(employee_map, f.df, f.name),
                [NoCall EXCEPT !.op = "process_openai", !.df = f.df, !.filename = f.name])

GetUnifiedData ==
    /\ pc = "ready"
    /\ \E p \in PathLists :
        Returns(get_unified_data(employee_map, p[1], p[2]),
                [NoCall EXCEPT !.op = "get_unified_data",
                               !.bf_paths = p[1], !.openai_paths = p[2]])

Next == ProcessBlueflame \/ ProcessOpenai \/ GetUnifiedData

Spec == Init /\ [][Next]_vars

\* The same processor called again: the caller has taken the table, the
\* processor keeps its roster map and its diagnostics. At most MaxCalls calls.
Again ==
    /\ pc = "returned"
    /\ calls < MaxCalls
    /\ pc' = "ready"
    /\ call' = NoCall
    /\ result' = [columns |-> <<>>, rows |-> <<>>]
    /\ UNCHANGED <<employee_file, employee_map, debug_log, calls, engine_df, retention>>

\* the calls of a sequence are made on the files on disk, get_unified_data on at
\* most one file of each format
SeqPathLists == SeqsUpTo(DiskBf, 1) \X SeqsUpTo(DiskOpenai, 1)

SeqProcessBlueflame ==
    /\ pc = "ready"
    /\ \E f \in {g \in DiskBf : g.readable} :
        Returns(process_blueflame(employee_map, f.df, f.name),
                [NoCall EXCEPT !.op = "process_blueflame", !.df = f.df, !.filename = f.name])

SeqProcessOpenai ==
    /\ pc = "ready"
    /\ \E f \in {g \in DiskOpenai : g.readable} :
        Returns(process_openai(employee_map, f.df, f.name),
                [NoCall EXCEPT !.op = "process_openai", !.df = f.df, !.filename = f.name])

SeqGetUnifiedData ==
    /\ pc = "ready"
    /\ \E p \in SeqPathLists :
        Returns(get_unified_data(employee_map, p[1], p[2]),
                [NoCall EXCEPT !.op = "get_unified_data",
                               !.bf_paths = p[1], !.openai_paths = p[2]])

NextSeq == SeqProcessBlueflame \/ SeqProcessOpenai \/ SeqGetUnifiedData \/ Again

\* a processor on which a sequence of calls is made
SpecSeq == Init /\ [][NextSeq]_vars


-----------------------------------------------------------------------------
(* MetricsEngine.get_retention_matrix (src/ai-adoption-dashboard/src/metrics.py) *)

EmptyDataFrame == [columns |-> <<>>, rows |-> <<>>]

RetentionColumns ==
    <<"Month", "Next_Month", "Active_Users", "Retained_Users", "Retention_Rate">>

\* the monthly bin of a date, counted in months
MonthBin(date) == date.y * 12 + (date.m - 1)

\* the bins of the rows; a row whose Date is NaT is in no bin
RowBins(rows) == {MonthBin(rows[i].Date) : i \in {j \in DOMAIN rows : rows[j].Date # NaT}}

FirstBin(bins) == CHOOSE b \in bins : \A c \in bins : b <= c

LastBin(bins) == CHOOSE b \in bins : \A c \in bins : c <= b

\* mutant: groupby on the months that have rows, without the empty bins between
Bins_WithRows(bins) ==
    [k \in 1..Cardinality(bins) |->
        CHOOSE b \in bins : Cardinality({c \in bins : c < b}) = k - 1]

\* pd.Grouper(key='Date', freq='M'): one bin for every month from the first to
\* the last date, the months without rows included, in order
Bins(bins) ==
    IF bins = {} THEN <<>>
    ELSE [k \in 1..(LastBin(bins) - FirstBin(bins) + 1) |-> FirstBin(bins) + k - 1]

\* ['Email'].unique() of one bin
UniqueEmails(rows, bin) ==
    {rows[i].Email : i \in {j \in DOMAIN rows : rows[j].Date # NaT /\ MonthBin(rows[j].Date) = bin}}

\* dt.strftime('%Y-%m')
Pad2(n) == IF n < 10 THEN <<"0">> \o NatToStr(n) ELSE NatToStr(n)

Date_Str(bin) == NatToStr(bin \div 12) \o <<"-">> \o Pad2((bin % 12) + 1)

\* monthly_users: Date_Str and the users of every bin
monthly_users(rows, bins) ==
    [k \in DOMAIN bins |-> [Date_Str |-> Date_Str(bins[k]), Email |-> UniqueEmails(rows, bins[k])]]

\* a quotient as a fraction in lowest terms
RECURSIVE Gcd(_, _)
Gcd(a, b) == IF b = 0 THEN a ELSE Gcd(b, a % b)

Ratio(num, den) == [num |-> num \div Gcd(num, den), den |-> den \div Gcd(num, den)]

\* (len(retained) / len(current_users)) * 100 if len(current_users) > 0 else 0
retention_rate(retained, current_users) ==
    IF Cardinality(current_users) > 0
    THEN Ratio(Cardinality(retained) * 100, Cardinality(current_users))
    ELSE Ratio(0, 1)

\* the row appended for month i and month i + 1
RetentionRow(current_month, next_month, current_users, next_users) ==
    [Month |-> current_month, Next_Month |-> next_month,
     Active_Users |-> Cardinality(current_users),
     Retained_Users |-> Cardinality(current_users \cap next_users),
     Retention_Rate |-> retention_rate(current_users \cap next_users, current_users)]

retention_data(monthly) ==
    [i \in 1..(Len(monthly) - 1) |->
        RetentionRow(monthly[i].Date_Str, monthly[i + 1].Date_Str,
                     monthly[i].Email, monthly[i + 1].Email)]

RetentionOf(monthly) ==
    IF Len(monthly) < 2 THEN EmptyDataFrame
    ELSE [columns |-> RetentionColumns, rows |-> retention_data(monthly)]

get_retention_matrix(rows) ==
    IF rows = <<>> THEN EmptyDataFrame
    ELSE RetentionOf(monthly_users(rows, Bins(RowBins(rows))))

(* The tables a MetricsEngine is constructed on *)

MaxRecords == 3

\* days of three months, the last one in the next year, and a null date
UsageDates == {Day(2025, 10, 25), Day(2025, 11, 1), Day(2026, 1, 5), NaT}

UsageRecords ==
    {Record(d, e, Unassigned, "ChatGPT", "Standard Chat", 1) :
        d \in UsageDates, e \in {alice_x_com, bob_x_com}}

\* tables of up to MaxRecords records; a table that has rows has a row with a date
UsageTables ==
    {t \in SeqsUpTo(UsageRecords, MaxRecords) : t = <<>> \/ RowBins(t) # {}}

\* MetricsEngine(df) on the table load_data returned: self.df = df.copy()
InitMetrics ==
    \E t \in UsageTables :
        /\ employee_file = EmployeeFile(FALSE, FALSE, FALSE, EmptyFrame)
        /\ employee_map = EmptyMap
        /\ debug_log = DataProcessorInit(employee_file).log
        /\ pc = "ready"
        /\ call = NoCall
        /\ result = [columns |-> Schema, rows |-> t]
        /\ calls = 0
        /\ engine_df = t
        /\ retention = EmptyDataFrame

GetRetentionMatrix ==
    /\ pc = "ready"
    /\ retention' = get_retention_matrix(engine_df)
    /\ pc' = "returned"
    /\ call' = [NoCall EXCEPT !.op = "get_retention_matrix"]
    /\ UNCHANGED <<employee_file, employee_map, debug_log, result, calls, engine_df>>

NextMetrics == GetRetentionMatrix

SpecMetrics == InitMetrics /\ [][NextMetrics]_vars

-----------------------------------------------------------------------------
(* Properties *)

Returned(op) == pc = "returned" /\ call.op = op

Records == Range(result.rows)

\* the cells of a long-format row of LongColumns
IsNumber(cell) == cell.k = "num"

SubTotal(row) == row[4].n + row[5].n + row[6].n

AllNumbers(row) == \A i \in 3..6 : IsNumber(row[i])

\* a row of LongColumns that passes the identity and date checks
WellFormedLongRow(row) ==
    /\ row[1] \in {Str(alice_x_com), Str(bob_x_com), Str(Alice_X_com_padded)}
    /\ row[2] \in {Str(iso_2025_10_01), Str(iso_2025_11_01)}

RECURSIVE Filter(_, _)
Filter(rows, feature) ==
    IF rows = <<>> THEN <<>>
    ELSE IF Head(rows).Feature = feature THEN <<Head(rows).Count>> \o Filter(Tail(rows), feature)
    ELSE Filter(Tail(rows), feature)

ScenarioRoster ==
    EmployeeFile(TRUE, TRUE, TRUE,
                 Frame(<<hdr_Email, hdr_Function>>,
                       << <<Str(alice_x_com), Str(Research)>>, <<Str(bob_x_com), Str(Sales)>> >>))

ScenarioCall ==
    /\ Returned("get_unified_data")
    /\ call.bf_paths = <<BfScenarioFile>>
    /\ call.openai_paths = <<OaScenarioFile>>

\* C1: in the end-to-end scenario (wide file bf_2025.csv with the row
\* alice@x.com, 25-Oct = 5; long file with the row bob@x.com, 2025-10-01,
\* messages 12, tool_messages 2; roster alice -> Research, bob -> Sales)
\* get_unified_data returns exactly three records: alice, Research, BlueFlame,
\* 'BlueFlame Messages', 5 on a day of October 2025; bob, Sales, ChatGPT,
\* 'Tool Messages', 2 on 2025-10-01; bob, Sales, ChatGPT, 'Standard Chat', 10 on
\* 2025-10-01.
C1_EndToEnd ==
    (ScenarioCall /\ employee_file = ScenarioRoster) =>
        /\ Len(result.rows) = 3
        /\ \E d \in 1..31 :
            Records = { [Date |-> Day(2025, 10, d), Email |-> alice_x_com,
                         Name |-> <<"A","l","i","c","e">>, Department |-> Research,
                         Tool |-> "BlueFlame", Feature |-> "BlueFlame Messages", Count |-> 5],
                        [Date |-> Day(2025, 10, 1), Email |-> bob_x_com,
                         Name |-> <<"B","o","b">>, Department |-> Sales,
                         Tool |-> "ChatGPT", Feature |-> "Tool Messages", Count |-> 2],
                        [Date |-> Day(2025, 10, 1), Email |-> bob_x_com,
                         Name |-> <<"B","o","b">>, Department |-> Sales,
                         Tool |-> "ChatGPT", Feature |-> "Standard Chat", Count |-> 10] }

C1_Witness == ScenarioCall /\ employee_file = ScenarioRoster /\ Len(result.rows) = 3

\* the call of the state made again on a processor with another roster map
Replay(map) ==
    CASE call.op = "process_blueflame" -> process_blueflame(map, call.df, call.filename).rows
      [] call.op = "process_openai" -> process_openai(map, call.df, call.filename).rows
      [] call.op = "get_unified_data" ->
            get_unified_data(map, call.bf_paths, call.openai_paths).rows

WithoutDepartment(rows) ==
    [i \in DOMAIN rows |-> [rows[i] EXCEPT !.Department = <<>>]]

RosterUnavailable ==
    ~employee_file.given \/ ~employee_file.exists \/ ~employee_file.readable

\* the maps a processor can be constructed with
RosterMaps == {DataProcessorInit(f).map : f \in EmployeeFiles}

\* C2: when no roster path is given, the path does not exist, or the roster
\* cannot be read, the call still returns a table, every record of it has
\* Department 'Unassigned', and its other fields are those the same call gives
\* on a processor built with any roster.
C2_MissingRoster ==
    (pc = "returned" /\ RosterUnavailable) =>
        /\ result.columns = Schema
        /\ \A r \in Records : r.Department = Unassigned
        /\ \A map \in RosterMaps :
              WithoutDepartment(Replay(map)) = WithoutDepartment(result.rows)

C2_Witness ==
    /\ ScenarioCall
    /\ employee_file.given /\ ~employee_file.exists
    /\ Len(result.rows) = 3
    /\ \A r \in Records : r.Department = Unassigned

\* the residuals of the rows of a frame, in row order, zero residuals left out
RECURSIVE PositiveResiduals(_)
PositiveResiduals(rows) ==
    IF rows = <<>> THEN <<>>
    ELSE IF Head(rows)[3].n - SubTotal(Head(rows)) > 0
         THEN <<Head(rows)[3].n - SubTotal(Head(rows))>> \o PositiveResiduals(Tail(rows))
         ELSE PositiveResiduals(Tail(rows))

InclusiveRow(row) ==
    WellFormedLongRow(row) /\ AllNumbers(row) /\ row[3].n >= SubTotal(row)

\* C3: for a long-format row with total messages >= sub_total (tool + gpt +
\* project), the 'Standard Chat' count is total - sub_total, and exactly one
\* 'Standard Chat' record with that count is emitted when it is positive, none
\* otherwise (total 100, tool 20, gpt 10, project 0 gives one record of 70).
C3_InclusiveResidual ==
    (/\ Returned("process_openai")
     /\ call.df.columns = LongColumns
     /\ \A i \in DOMAIN call.df.rows : InclusiveRow(call.df.rows[i])) =>
        /\ Filter(result.rows, "Standard Chat") = PositiveResiduals(call.df.rows)
        /\ \A i \in DOMAIN call.df.rows :
              StandardChatCount(call.df.rows[i][3], call.df.rows[i][4],
                                call.df.rows[i][5], call.df.rows[i][6])
              = Num(call.df.rows[i][3].n - SubTotal(call.df.rows[i]))

C3_Witness ==
    /\ Returned("process_openai")
    /\ call.df = Frame(LongColumns, << <<Str(alice_x_com), Str(iso_2025_10_01),
                                         Num(100), Num(20), Num(10), Num(0)>> >>)
    /\ Filter(result.rows, "Standard Chat") = <<70>>


ExclusiveRow(row) ==
    WellFormedLongRow(row) /\ AllNumbers(row) /\ row[3].n < SubTotal(row)

OneLongRow ==
    /\ Returned("process_openai")
    /\ call.df.columns = LongColumns
    /\ Len(call.df.rows) = 1

RowCount(row) == StandardChatCount(row[3], row[4], row[5], row[6])

\* C4 as stated: for every long-format row with total messages < sub_total,
\* the 'Standard Chat' count equals the total column itself.
C4_CountIsTotal ==
    (OneLongRow /\ ExclusiveRow(call.df.rows[1])) =>
        RowCount(call.df.rows[1]) = call.df.rows[1][3]

\* C4, amended: for every long-format row with total messages < sub_total, the
\* 'Standard Chat' count equals the total column itself when the total is not
\* negative, and zero when it is negative (the safety clamp); one 'Standard
\* Chat' record with Count = total is emitted exactly when total > 0 (total 10,
\* tool_messages 20 gives count 10, not 0).
C4_ExclusiveSwitch ==
    (OneLongRow /\ ExclusiveRow(call.df.rows[1])) =>
        /\ RowCount(call.df.rows[1])
             = (IF call.df.rows[1][3].n >= 0 THEN call.df.rows[1][3] ELSE Num(0))
        /\ Filter(result.rows, "Standard Chat")
             = (IF call.df.rows[1][3].n > 0 THEN <<call.df.rows[1][3].n>> ELSE <<>>)

C4_Witness ==
    /\ OneLongRow
    /\ call.df.rows[1] = <<Str(alice_x_com), Str(iso_2025_10_01), Num(10), Num(20), Num(0), Num(0)>>
    /\ Filter(result.rows, "Standard Chat") = <<10>>

PositiveCell(cell) == cell.k = "num" /\ cell.n > 0

\* the column of LongColumns a feature of a sub-metric is read from
MetricColumn(feature) ==
    CASE feature = "Tool Messages" -> 4
      [] feature = "GPT Messages" -> 5
      [] feature = "Project Messages" -> 6

\* C5: every record returned by process_blueflame, process_openai and
\* get_unified_data has Count > 0; a record of a wide-format file comes from a
\* cell of its date column that holds a positive number (a zero, negative,
\* blank or non-numeric cell produces none), and a sub-metric record of a
\* long-format file comes from a positive value of its column.
C5_PositiveCounts ==
    pc = "returned" =>
        /\ \A r \in Records : r.Count > 0
        /\ (call.op = "process_blueflame" /\ call.df.columns = WideColumns) =>
              \A r \in Records : \E i \in DOMAIN call.df.rows :
                  PositiveCell(call.df.rows[i][IF r.Date.m = 10 THEN 2 ELSE 3])
        /\ (call.op = "process_openai" /\ call.df.columns = LongColumns) =>
              \A r \in Records : r.Feature # "Standard Chat" =>
                  \E i \in DOMAIN call.df.rows :
                      PositiveCell(call.df.rows[i][MetricColumn(r.Feature)])

C5_Witness ==
    /\ Returned("process_blueflame")
    /\ call.df = Frame(WideColumns, << <<Str(alice_x_com), Num(0), Num(1)>> >>)
    /\ Len(result.rows) = 1
    /\ result.rows[1].Date = Day(2025, 11, 1)

HasDotAfterAt(e) == \E i \in DOMAIN e : \E j \in DOMAIN e : i < j /\ e[i] = "@" /\ e[j] = "."

\* C6: no record is returned for an identity that fails the email-shape check
\* (no "@", or no "." after the "@"), from a wide-format or a long-format file:
\* the Email of every record has an "@" and a "." after it.
C6_EmailShape == pc = "returned" => \A r \in Records : HasDotAfterAt(r.Email)

AggregateWords == { <<"t","o","t","a","l">>, <<"s","u","m">>,
                    <<"a","v","e","r","a","g","e">>, <<"c","o","u","n","t">> }

\* C7: no record is returned for an identity that contains "total", "sum",
\* "average" or "count" in any letter case, from a wide-format or a long-format
\* file.
C7_AggregateRows ==
    pc = "returned" =>
        \A r \in Records : \A w \in AggregateWords : ~Contains(Lower(r.Email), w)

RosterLoaded ==
    /\ employee_file.given /\ employee_file.exists /\ employee_file.readable
    /\ employee_file.df.columns = <<hdr_Email, hdr_Function>>

Normalised(cell) == Strip(Lower(AsStr(cell)))

\* the department of the last roster row of identity e
LastDepartment(rows, e) ==
    Strip(AsStr(rows[CHOOSE i \in DOMAIN rows :
                        /\ Normalised(rows[i][1]) = e
                        /\ \A j \in DOMAIN rows : j > i => Normalised(rows[j][1]) # e][2]))

\* C8: when several roster rows have the same identity after lowercasing and
\* trimming, the roster map holds for it the department of the row that comes
\* last in the file, and every record of that identity has that department.
C8_RosterLastWins ==
    RosterLoaded =>
        /\ DOMAIN employee_map
             = {Normalised(employee_file.df.rows[i][1]) : i \in DOMAIN employee_file.df.rows}
        /\ \A e \in DOMAIN employee_map :
              employee_map[e] = LastDepartment(employee_file.df.rows, e)
        /\ \A r \in Records : r.Email \in DOMAIN employee_map =>
              r.Department = LastDepartment(employee_file.df.rows, r.Email)

C8_Witness ==
    /\ RosterLoaded
    /\ employee_file.df.rows = << <<Str(alice_x_com), Str(Research)>>,
                                  <<Str(Alice_X_com_padded), Str(Sales_padded)>> >>
    /\ pc = "returned"
    /\ \E r \in Records : r.Email = alice_x_com /\ r.Department = Sales

\* C9: no two records of the table get_unified_data returns agree on all of
\* Date, Email, Tool and Feature.
C9_UniqueKeys ==
    Returned("get_unified_data") =>
        \A i \in DOMAIN result.rows : \A j \in DOMAIN result.rows :
            i # j => \/ result.rows[i].Date # result.rows[j].Date
                     \/ result.rows[i].Email # result.rows[j].Email
                     \/ result.rows[i].Tool # result.rows[j].Tool
                     \/ result.rows[i].Feature # result.rows[j].Feature

C9_Witness ==
    /\ Returned("get_unified_data")
    /\ \E i \in DOMAIN debug_log : debug_log[i].kind = "removed_duplicates"
    /\ Len(result.rows) >= 2

\* the records of all files in processing order, before deduplication
Concatenated ==
    Concat(BfPaths(employee_map, call.bf_paths).dfs)
    \o Concat(OaiPaths(employee_map, call.openai_paths).dfs)

SameKey(a, b) ==
    a.Date = b.Date /\ a.Email = b.Email /\ a.Tool = b.Tool /\ a.Feature = b.Feature

\* rows keeps, of the records of concat, the first of each key, unchanged
KeepsFirst(rows, concat) ==
    /\ \A k \in DOMAIN rows : \E i \in DOMAIN concat :
          /\ concat[i] = rows[k]
          /\ \A j \in 1..(i - 1) : ~SameKey(concat[j], rows[k])
    /\ \A i \in DOMAIN concat : \E k \in DOMAIN rows : SameKey(concat[i], rows[k])
    /\ Len(rows) <= Len(concat)

\* C10: when concatenated records collide on (Date, Email, Tool, Feature), the
\* unified table keeps the one that comes first in processing order (files in
\* the order given, rows in file order), with its own Count; the later ones are
\* dropped and their counts are not added.
C10_FirstWins == Returned("get_unified_data") => KeepsFirst(result.rows, Concatenated)

C10_Witness ==
    /\ Returned("get_unified_data")
    /\ Len(call.bf_paths) = 2
    /\ call.bf_paths[1] = BfScenarioFile
    /\ call.bf_paths[2].name = file_bf_2025_b
    /\ \E r \in Records : r.Email = alice_x_com /\ r.Tool = "BlueFlame" /\ r.Count = 5
    /\ \A r \in Records : r.Email = alice_x_com => r.Count = 5


\* the rows drop_duplicates keeps of rows with its i-th row appended once more
WithDuplicate(rows, i) == drop_duplicates(Append(rows, rows[i]))

Idempotent(rows) ==
    /\ drop_duplicates(drop_duplicates(rows)) = drop_duplicates(rows)
    /\ \A i \in DOMAIN rows : WithDuplicate(rows, i) = drop_duplicates(rows)

\* C11: deduplicating a deduplicated table changes nothing, and deduplicating
\* the concatenated records with an exact copy of one of them appended gives
\* the rows that deduplicating the concatenated records gives.
C11_DedupIdempotent ==
    Returned("get_unified_data") =>
        /\ drop_duplicates(result.rows) = result.rows
        /\ Idempotent(Concatenated)

C11_Witness ==
    /\ Returned("get_unified_data")
    /\ Len(Concatenated) > Len(result.rows)
    /\ Len(result.rows) >= 2
    /\ WithDuplicate(Concatenated, 1) = result.rows

Reverse(s) == [i \in DOMAIN s |-> s[Len(s) + 1 - i]]

\* C12: get_unified_data returns the same set of records, with the same keys
\* and Counts, when the files are listed in the opposite order, also when two
\* files hold records of the same (Date, Email, Tool, Feature) and different
\* Counts.
C12_CommutativeMerge ==
    Returned("get_unified_data") =>
        Range(get_unified_data(employee_map, Reverse(call.bf_paths),
                               Reverse(call.openai_paths)).rows) = Records

\* a file that adds no record: it cannot be read, or processing it gives no row
BfYieldsNothing(f) ==
    ~f.readable \/ process_blueflame(employee_map, f.df, f.name).rows = <<>>

OaiYieldsNothing(f) ==
    ~f.readable \/ process_openai(employee_map, f.df, f.name).rows = <<>>

NothingToUnify ==
    /\ \A i \in DOMAIN call.bf_paths : BfYieldsNothing(call.bf_paths[i])
    /\ \A i \in DOMAIN call.openai_paths : OaiYieldsNothing(call.openai_paths[i])

\* C13: every table returned has the seven columns Date, Email, Name,
\* Department, Tool, Feature, Count, and get_unified_data returns a table of
\* zero rows with these columns when no path is given, when every file fails
\* to load, or when every file yields no record.
C13_EmptyKeepsSchema ==
    pc = "returned" =>
        /\ result.columns = Schema
        /\ (call.op = "get_unified_data" /\ NothingToUnify) => result.rows = <<>>

C13_Witness ==
    /\ Returned("get_unified_data")
    /\ NothingToUnify
    /\ \E i \in DOMAIN call.bf_paths : call.bf_paths[i].readable
    /\ \E i \in DOMAIN call.openai_paths : call.openai_paths[i].readable
    /\ result = [columns |-> Schema, rows |-> <<>>]

ReadableOnly(paths) == SelectSeq(paths, LAMBDA f : f.readable)

FailedNames(paths) ==
    [i \in DOMAIN SelectSeq(paths, LAMBDA f : ~f.readable) |->
        SelectSeq(paths, LAMBDA f : ~f.readable)[i].name]

\* the file names of the entries of a kind in the debug log, in order
Logged(log, kind) ==
    [i \in DOMAIN SelectSeq(log, LAMBDA e : e.kind = kind) |->
        SelectSeq(log, LAMBDA e : e.kind = kind)[i].file]

\* C14: a file that raises when it is read adds no record and exactly one
\* entry naming it to the debug log, and the other files of the list, before
\* and after it, are processed as if it were not in the list.
C14_FailureIsolated ==
    Returned("get_unified_data") =>
        /\ result.rows = get_unified_data(employee_map, ReadableOnly(call.bf_paths),
                                          ReadableOnly(call.openai_paths)).rows
        /\ Logged(debug_log, "bf_error") = FailedNames(call.bf_paths)
        /\ Logged(debug_log, "openai_error") = FailedNames(call.openai_paths)

C14_Witness ==
    /\ Returned("get_unified_data")
    /\ Len(call.bf_paths) = 2
    /\ ~call.bf_paths[1].readable
    /\ call.bf_paths[2] = BfScenarioFile
    /\ Len(result.rows) = 1
    /\ Logged(debug_log, "bf_error") = <<file_bf_2025>>

\* a wide-format header row without an identity column or without a date column
WideMismatch(columns) ==
    \/ \A i \in DOMAIN columns :
          /\ ~(Contains(Lower(columns[i]), kw_user) /\ Contains(Lower(columns[i]), kw_id))
          /\ ~Contains(Lower(columns[i]), kw_email)
    \/ \A i \in DOMAIN columns : ~IsDateHeader(Strip(columns[i]))

\* a long-format header row without an 'email' or without a 'period_start' column
LongMismatch(columns) ==
    \/ \A i \in DOMAIN columns : Strip(Lower(columns[i])) # kw_email
    \/ \A i \in DOMAIN columns : Strip(Lower(columns[i])) # col_period_start

\* C15: a wide-format file with no identity column or no date-like column, and
\* a long-format file with no 'email' column or no 'period_start' column,
\* yield zero records.
C15_SchemaMismatch ==
    /\ (Returned("process_blueflame") /\ WideMismatch(call.df.columns)) => result.rows = <<>>
    /\ (Returned("process_openai") /\ LongMismatch(call.df.columns)) => result.rows = <<>>

\* C16: no record returned for a wide-format file, or for a long-format file
\* that has all its columns, has a null Date (here for the identities of email
\* shape): a cell or row whose date cannot be parsed into a calendar date
\* produces no record.
C16_NoNullDate ==
    (\/ Returned("process_blueflame")
     \/ Returned("process_openai") /\ call.df.columns = LongColumns) =>
        \A r \in Records : EmailShape(r.Email) => r.Date # NaT

RosterRead == employee_file.given /\ employee_file.exists /\ employee_file.readable

NoIdentityHeader(columns) ==
    \A i \in DOMAIN columns : ~Contains(Lower(columns[i]), kw_email)

NoDepartmentHeader(columns) ==
    \A i \in DOMAIN columns :
        /\ ~Contains(Lower(columns[i]), kw_function)
        /\ ~Contains(Lower(columns[i]), kw_department)

\* C17: when no header of the roster file contains 'email', or none contains
\* 'function' or 'department', the roster map is empty, the debug log has a
\* diagnostic about the missing column, and every record returned has
\* Department 'Unassigned'.
C17_RosterColumnsMissing ==
    (/\ RosterRead
     /\ \/ NoIdentityHeader(employee_file.df.columns)
        \/ NoDepartmentHeader(employee_file.df.columns)) =>
        /\ employee_map = EmptyMap
        /\ debug_log[1].kind = "emp_column_missing"
        /\ \A r \in Records : r.Department = Unassigned

C17_Witness ==
    /\ RosterRead
    /\ employee_file.df.columns = <<hdr_Name, hdr_Function>>
    /\ ScenarioCall
    /\ Len(result.rows) = 3

\* C18: the Email of every record is lowercase and trimmed, and its Department
\* is the value of the roster map for exactly that Email when it is a key of
\* the map, and 'Unassigned' otherwise.
C18_ExactLookup ==
    pc = "returned" =>
        \A r \in Records :
            /\ r.Email = Strip(Lower(r.Email))
            /\ r.Email \in DOMAIN employee_map => r.Department = employee_map[r.Email]
            /\ r.Email \notin DOMAIN employee_map => r.Department = Unassigned

C18_Witness ==
    /\ pc = "returned"
    /\ alice_x_com \in DOMAIN employee_map
    /\ \E r \in Records : r.Email = alice_no_dot /\ r.Department = Unassigned

\* the department texts of the roster rows whose department cell is not blank
DeptStrings(rows, func_col) ==
    {Strip(rows[i][func_col].s) : i \in {j \in DOMAIN rows : rows[j][func_col].k = "str"}}

\* C19: the Department of every record of the unified table is 'Unassigned' or
\* a department text of the roster, also when the roster row of the identity
\* has a blank department cell.
C19_DepartmentNeverNull ==
    Returned("get_unified_data") =>
        \A r \in Records :
            \/ r.Department = Unassigned
            \/ /\ employee_map # EmptyMap
               /\ r.Department \in DeptStrings(employee_file.df.rows,
                                                FuncCol(StripAll(employee_file.df.columns)))

TokenAt(f, i) ==
    /\ i + 3 <= Len(f)
    /\ f[i] = "2" /\ f[i + 1] = "0" /\ IsDigit(f[i + 2]) /\ IsDigit(f[i + 3])

FirstToken(f) == CHOOSE i \in DOMAIN f : TokenAt(f, i) /\ \A j \in 1..(i - 1) : ~TokenAt(f, j)

\* the year of the first token 20dd of a file name, or of the clock
ExpectedYear(f) ==
    IF \E i \in DOMAIN f : TokenAt(f, i)
    THEN ToInt(SubSeq(f, FirstToken(f), FirstToken(f) + 3))
    ELSE ToInt(CurrentYear)

Dash(h) == CHOOSE k \in DOMAIN h : h[k] = "-" /\ \A j \in 1..(k - 1) : h[j] # "-"

HeaderDay(h) == ToInt(SubSeq(h, 1, Dash(h) - 1))

HeaderMonth(h) == IndexOf(MonthNames, Lower(SubSeq(h, Dash(h) + 1, Dash(h) + 3)))

\* column i of the frame is a date column of the day and month of r and has a
\* positive cell
FromHeader(r, df, i) ==
    /\ IsDateHeader(Strip(df.columns[i]))
    /\ HeaderDay(Strip(df.columns[i])) = r.Date.d
    /\ HeaderMonth(Strip(df.columns[i])) = r.Date.m
    /\ \E k \in DOMAIN df.rows : PositiveCell(df.rows[k][i])

\* C20: the Date of every record of a wide-format file has the year of the
\* first token 20dd of the file name, or the current year when the name has
\* none, and the day and month of the DD-Mon header of the column its cell
\* came from.
C20_YearInference ==
    Returned("process_blueflame") =>
        \A r \in Records :
            /\ r.Date.y = ExpectedYear(call.filename)
            /\ \E i \in DOMAIN call.df.columns : FromHeader(r, call.df, i)

C20_Witness ==
    /\ Returned("process_blueflame")
    /\ call.filename = file_bf_2024_2025
    /\ \E r \in Records : r.Date = Day(2024, 11, 1)

-----------------------------------------------------------------------------
\* the features of a long-format record
LongFeatures == {"Standard Chat", "Tool Messages", "GPT Messages", "Project Messages"}

WideRecord(r) == r.Tool = "BlueFlame" /\ r.Feature = "BlueFlame Messages"

LongRecord(r) == r.Tool = "ChatGPT" /\ r.Feature \in LongFeatures

\* the records the wide-format files, and the long-format files, of the call add
FromWide == Range(Concat(BfPaths(employee_map, call.bf_paths).dfs))

FromLong == Range(Concat(OaiPaths(employee_map, call.openai_paths).dfs))

NoCollision(wide, long) == \A a \in wide : \A b \in long : DedupKey(a) # DedupKey(b)

\* C21: every record returned has Tool 'BlueFlame' or 'ChatGPT'; every record
\* of a wide-format file has Tool 'BlueFlame' and Feature 'BlueFlame Messages';
\* every record of a long-format file has Tool 'ChatGPT' and a Feature among
\* 'Standard Chat', 'Tool Messages', 'GPT Messages', 'Project Messages'; so a
\* wide-format record and a long-format record never have the same dedup key.
C21_ToolFeature ==
    /\ \A r \in Records : r.Tool \in {"BlueFlame", "ChatGPT"}
    /\ Returned("process_blueflame") => \A r \in Records : WideRecord(r)
    /\ Returned("process_openai") => \A r \in Records : LongRecord(r)
    /\ Returned("get_unified_data") =>
          /\ \A r \in FromWide : WideRecord(r)
          /\ \A r \in FromLong : LongRecord(r)
          /\ NoCollision(FromWide, FromLong)

C21_Witness ==
    /\ ScenarioCall
    /\ \E a \in Records : \E b \in Records :
          /\ WideRecord(a) /\ a \in FromWide
          /\ LongRecord(b) /\ b \in FromLong

-----------------------------------------------------------------------------
\* a header lowercased, without surrounding blanks, its inner blanks turned into
\* underscores
Underscored(s) == [i \in DOMAIN s |-> IF IsSpace(s[i]) THEN "_" ELSE s[i]]

KnownName(header) == Underscored(Strip(Lower(header)))

KnownNames(columns) == [i \in DOMAIN columns |-> KnownName(columns[i])]

\* C22: a long-format column whose header differs from the known name only by
\* letter case, surrounding blanks, or a space in place of an underscore
\* ('Tool Messages' for 'tool_messages', 'Period Start' for 'period_start') is
\* read as that known column: process_openai returns the records it returns
\* for the same rows under the known names.
C22_HeadersNormalised ==
    Returned("process_openai") =>
        result.rows = process_openai(employee_map,
                                     Frame(KnownNames(call.df.columns), call.df.rows),
                                     call.filename).rows

-----------------------------------------------------------------------------
Upper(s) == [i \in DOMAIN s |-> UpperChar(s[i])]

\* a text in lowercase without leading or trailing whitespace
LowerTrimmed(s) ==
    /\ \A i \in DOMAIN s : ~IsUpper(s[i])
    /\ s # <<>> => ~IsSpace(s[1]) /\ ~IsSpace(s[Len(s)])

\* an identity written in another way: in capitals, between blanks
VaryCell(cell) == IF cell.k = "str" THEN Str(<<" ">> \o Upper(cell.s) \o <<" ">>) ELSE cell

\* the rows with the cells of column col written in another way (none for col = 0)
VaryColumn(rows, col) ==
    [i \in DOMAIN rows |->
        [j \in DOMAIN rows[i] |-> IF j = col THEN VaryCell(rows[i][j]) ELSE rows[i][j]]]

VaryWide(df) == Frame(df.columns, VaryColumn(df.rows, BfUserCol(StripAll(df.columns))))

VaryLong(df) ==
    Frame(df.columns,
          VaryColumn(df.rows,
                     FirstIndex({j \in DOMAIN df.columns :
                                    LowerStripAll(df.columns)[j] = kw_email})))

VaryRoster(file) ==
    [file EXCEPT !.df = Frame(file.df.columns,
                              VaryColumn(file.df.rows, EmailCol(StripAll(file.df.columns))))]

VaryWideFiles(files) == [i \in DOMAIN files |-> [files[i] EXCEPT !.df = VaryWide(files[i].df)]]

VaryLongFiles(files) == [i \in DOMAIN files |-> [files[i] EXCEPT !.df = VaryLong(files[i].df)]]

\* the call of the state made again with every identity written in another way
ReplayVaried ==
    CASE call.op = "process_blueflame" ->
            process_blueflame(employee_map, VaryWide(call.df), call.filename).rows
      [] call.op = "process_openai" ->
            process_openai(employee_map, VaryLong(call.df), call.filename).rows
      [] call.op = "get_unified_data" ->
            get_unified_data(employee_map, VaryWideFiles(call.bf_paths),
                             VaryLongFiles(call.openai_paths)).rows

\* C23: the Email of every record returned and every key of the roster map is
\* in lowercase without leading or trailing whitespace; identities that differ
\* only by letter case or surrounding blanks are the same user: a roster and a
\* usage file written with such variants give the same roster map and the same
\* records (same Email, same Department), and records of the two spellings
\* share one dedup key.
C23_IdentityNormalised ==
    /\ \A e \in DOMAIN employee_map : LowerTrimmed(e)
    /\ DataProcessorInit(VaryRoster(employee_file)).map = employee_map
    /\ pc = "returned" =>
          /\ \A r \in Records : LowerTrimmed(r.Email)
          /\ ReplayVaried = result.rows

C23_Witness ==
    /\ Returned("get_unified_data")
    /\ Len(call.bf_paths) = 2
    /\ call.bf_paths[1] = BfScenarioFile
    /\ call.bf_paths[2].name = file_bf_2025_b
    /\ alice_x_com \in DOMAIN employee_map
    /\ {r \in Records : r.Email = alice_x_com} =
          {Record(Day(2025, 10, 25), alice_x_com, employee_map[alice_x_com],
                  "BlueFlame", "BlueFlame Messages", 5)}
    /\ \A r \in Records : r.Email # Strip(Alice_X_com_padded)

-----------------------------------------------------------------------------
\* C24: the roster map is built in the constructor, before any usage file is
\* processed, and process_blueflame, process_openai and get_unified_data leave
\* it unchanged: after any sequence of these calls employee_map is the map
\* built at construction from the roster file.
C24_RosterMapFixed == employee_map = DataProcessorInit(employee_file).map

C24_Witness ==
    /\ calls = MaxCalls
    /\ Returned("process_openai")
    /\ Len(debug_log) > 1
    /\ bob_x_com \in DOMAIN employee_map
    /\ \E r \in Records : r.Email = bob_x_com /\ r.Department = employee_map[bob_x_com]

-----------------------------------------------------------------------------
RECURSIVE SumCounts(_)
SumCounts(rows) == IF rows = <<>> THEN 0 ELSE Head(rows).Count + SumCounts(Tail(rows))

DistinctFeatures(rows) ==
    \A i \in DOMAIN rows : \A j \in DOMAIN rows : i # j => rows[i].Feature # rows[j].Feature

\* one long-format row of numbers whose three sub-metrics are not negative
OneCountedRow ==
    /\ OneLongRow
    /\ WellFormedLongRow(call.df.rows[1])
    /\ AllNumbers(call.df.rows[1])
    /\ \A i \in 4..6 : call.df.rows[1][i].n >= 0

\* C25 as stated: the Counts of the records of a long-format row add up to the
\* total when total >= sub_total and to total + sub_total when total <
\* sub_total; the row emits at most four records, of pairwise distinct Features.
C25_CountsAddUp ==
    OneCountedRow =>
        /\ SumCounts(result.rows)
             = (IF call.df.rows[1][3].n >= SubTotal(call.df.rows[1])
                THEN call.df.rows[1][3].n
                ELSE call.df.rows[1][3].n + SubTotal(call.df.rows[1]))
        /\ Len(result.rows) <= 4
        /\ DistinctFeatures(result.rows)

\* C25, amended: for a long-format row whose sub-metrics are not negative, the
\* Counts of its records add up to the total when total >= sub_total, and to
\* total + sub_total when total < sub_total and the total is not negative; a
\* negative total counts as zero (the safety clamp), so the Counts then add up
\* to sub_total. The row emits at most four records, of pairwise distinct
\* Features.
C25_NoDoubleCounting ==
    OneCountedRow =>
        /\ SumCounts(result.rows)
             = (IF call.df.rows[1][3].n >= SubTotal(call.df.rows[1])
                THEN call.df.rows[1][3].n
                ELSE IF call.df.rows[1][3].n >= 0
                     THEN call.df.rows[1][3].n + SubTotal(call.df.rows[1])
                     ELSE SubTotal(call.df.rows[1]))
        /\ Len(result.rows) <= 4
        /\ DistinctFeatures(result.rows)

C25_Witness ==
    /\ OneCountedRow
    /\ call.df.rows[1][3].n = 1
    /\ SubTotal(call.df.rows[1]) = 2 + MaxCount
    /\ Len(result.rows) = 4
    /\ SumCounts(result.rows) = 3 + MaxCount

-----------------------------------------------------------------------------
SubMetrics == {col_tool_messages, col_gpt_messages, col_project_messages}

\* the cell of a metric in a row, None when the file has no such column
MetricCell(df, name) == RowGet(LowerStripAll(df.columns), df.rows[1], name, Str(<<>>))

\* a sub-metric counted as the claim counts it: zero when absent, blank or no number
Present(cell) == IF cell.k = "num" THEN cell.n ELSE 0

PresentTotal(df) ==
    Present(MetricCell(df, col_tool_messages)) + Present(MetricCell(df, col_gpt_messages))
    + Present(MetricCell(df, col_project_messages))

\* one row of a well-formed identity and date, with a total above the sub-metrics
\* present, none of them negative, and a sub-metric absent, blank or no number
OneRowMissingSubMetric ==
    /\ Returned("process_openai")
    /\ Len(call.df.rows) = 1
    /\ OaiEmailKept(OaiEmail(LowerStripAll(call.df.columns), call.df.rows[1]))
    /\ ~OaiDateRaises(RowGet(LowerStripAll(call.df.columns), call.df.rows[1],
                             col_period_start, NaN))
    /\ MetricCell(call.df, col_messages).k = "num"
    /\ \A name \in SubMetrics : Present(MetricCell(call.df, name)) >= 0
    /\ \E name \in SubMetrics : MetricCell(call.df, name).k # "num"
    /\ MetricCell(call.df, col_messages).n > PresentTotal(call.df)

\* C26: a sub-metric that is absent from a long-format file, or blank or not a
\* number in a row, counts as zero in the residual: a row with a positive
\* total above the sub-metrics present emits one 'Standard Chat' record whose
\* Count is the total minus the sub-metrics present.
C26_MissingSubMetricIsZero ==
    OneRowMissingSubMetric =>
        Filter(result.rows, "Standard Chat")
          = <<MetricCell(call.df, col_messages).n - PresentTotal(call.df)>>

-----------------------------------------------------------------------------
\* the sum of the positive cells of column c in the first n rows of identity e
RECURSIVE IdentitySum(_, _, _, _, _)
IdentitySum(rows, user_col, c, e, n) ==
    IF n = 0 THEN 0
    ELSE (IF Normalised(rows[n][user_col]) = e /\ PositiveCell(rows[n][c])
          THEN rows[n][c].n ELSE 0)
         + IdentitySum(rows, user_col, c, e, n - 1)

\* record r is the sum of a date column of the file over the rows of its identity
SumOfColumn(r, df, filename, user_col) ==
    \E c \in BfDateCols(StripAll(df.columns)) :
        /\ BfDate(StripAll(df.columns)[c], filename) = r.Date
        /\ r.Count = IdentitySum(df.rows, user_col, c, r.Email, Len(df.rows))

\* C27: within one wide-format file the rows of one identity (after lowercasing
\* and trimming) are aggregated: process_blueflame returns at most one record
\* for a Date and an Email, and its Count is the sum of the positive cells of
\* that date column over all rows of that identity.
C27_WithinFileSum ==
    Returned("process_blueflame") =>
        /\ \A i \in DOMAIN result.rows : \A j \in DOMAIN result.rows :
              (result.rows[i].Date = result.rows[j].Date
               /\ result.rows[i].Email = result.rows[j].Email) => i = j
        /\ \A r \in Records :
              SumOfColumn(r, call.df, call.filename, BfUserCol(StripAll(call.df.columns)))

C27_Witness ==
    /\ Returned("process_blueflame")
    /\ call.df.rows = << <<Str(alice_x_com), Num(1), NaN>>,
                         <<Str(Alice_X_com_padded), Num(MaxCount), NaN>> >>
    /\ Len(result.rows) = 1
    /\ result.rows[1].Email = alice_x_com
    /\ result.rows[1].Count = 1 + MaxCount

-----------------------------------------------------------------------------
\* a list of files with every file at its first place only
FirstOccurrences(paths) ==
    Select(paths, {i \in DOMAIN paths : \A j \in 1..(i - 1) : paths[j] # paths[i]})

\* the call of the state made with every file passed once
PassedOnce ==
    get_unified_data(employee_map, FirstOccurrences(call.bf_paths),
                     FirstOccurrences(call.openai_paths))

\* a file is passed more than once
PassedTwice ==
    /\ Returned("get_unified_data")
    /\ \/ FirstOccurrences(call.bf_paths) # call.bf_paths
       \/ FirstOccurrences(call.openai_paths) # call.openai_paths

\* the diagnostics the call appended to the debug log
CallLog ==
    SubSeq(debug_log, Len(DataProcessorInit(employee_file).log) + 1, Len(debug_log))

\* a log without its entries about removed duplicates
Diagnostics(log) == SelectSeq(log, LAMBDA e : e.kind # "removed_duplicates")

\* the entry about removed duplicates is there exactly when rows were removed,
\* last in the log, with the number of rows before dedup minus rows after
RemovedLogged(log, before, after) ==
    IF before = after THEN Diagnostics(log) = log
    ELSE /\ log # <<>>
         /\ log[Len(log)] = LogEntry("removed_duplicates", before - after, <<>>)
         /\ Diagnostics(log) = SubSeq(log, 1, Len(log) - 1)

\* C28 as stated: passing a file two or more times to get_unified_data gives
\* the records, with the Counts, of passing it once; the only difference is a
\* debug-log entry with the number of duplicate records removed, which is rows
\* before dedup minus rows after. Stated for files that can be read.
C28_RereadOnlyLogsDuplicates ==
    (/\ PassedTwice
     /\ ReadableOnly(call.bf_paths) = call.bf_paths
     /\ ReadableOnly(call.openai_paths) = call.openai_paths) =>
        /\ result.rows = PassedOnce.rows
        /\ Diagnostics(CallLog) = Diagnostics(PassedOnce.log)
        /\ RemovedLogged(CallLog, Len(Concatenated), Len(result.rows))

\* C28, amended: passing a file two or more times to get_unified_data gives
\* the records, with the Counts, of passing it once; the debug log differs by
\* the entry with the number of duplicate records removed (rows before dedup
\* minus rows after), and by the diagnostics of the file itself (it cannot be
\* read, it has no date column), which are logged again each time it is passed.
C28_RereadHarmless ==
    PassedTwice =>
        /\ result.rows = PassedOnce.rows
        /\ Range(Diagnostics(CallLog)) = Range(Diagnostics(PassedOnce.log))
        /\ Len(Diagnostics(CallLog)) >= Len(Diagnostics(PassedOnce.log))
        /\ RemovedLogged(CallLog, Len(Concatenated), Len(result.rows))

C28_Witness ==
    /\ Returned("get_unified_data")
    /\ call.bf_paths = <<BfScenarioFile, BfScenarioFile>>
    /\ Len(result.rows) = 1
    /\ result.rows[1].Count = 5
    /\ CallLog = <<LogEntry("removed_duplicates", 1, <<>>)>>

-----------------------------------------------------------------------------
\* the names of the identities of the model: the local part of the email, its
\* dots turned into spaces, every word capitalised
ExpectedNames ==
    { <<alice_x_com, <<"A","l","i","c","e">> >>,
      <<bob_x_com, <<"B","o","b">> >>,
      <<j_doe_x_com, <<"J"," ","D","o","e">> >> }

\* C29: Name and Department are functions of Email: in the table returned by
\* get_unified_data (and by process_blueflame and process_openai), any two
\* records of one Email have the same Name, which is the local part of the
\* email with dots replaced by spaces, title-cased ('j.doe@x.com' gives
\* 'J Doe'), and the same Department, whichever file or tool they come from.
C29_NameAndDepartmentOfEmail ==
    pc = "returned" =>
        /\ \A a \in Records : \A b \in Records :
              a.Email = b.Email => a.Name = b.Name /\ a.Department = b.Department
        /\ \A r \in Records : \A n \in ExpectedNames : r.Email = n[1] => r.Name = n[2]

C29_Witness ==
    /\ Returned("get_unified_data")
    /\ \E a \in Records : \E b \in Records :
          /\ a.Email = bob_x_com /\ b.Email = bob_x_com
          /\ a.Tool = "BlueFlame" /\ b.Tool = "ChatGPT"
          /\ a.Name = <<"B","o","b">> /\ b.Name = a.Name
          /\ a.Department = Sales /\ b.Department = Sales

-----------------------------------------------------------------------------
\* year and month of a date as 'YYYY-MM'
MonthOf(date) == NatToStr(date.y) \o <<"-">> \o Pad2(date.m)

\* the month after 'YYYY-MM'
FollowingMonth(y, m) == IF m = 12 THEN MonthOf(Day(y + 1, 1, 1)) ELSE MonthOf(Day(y, m + 1, 1))

\* the Emails of the rows of a month
ActiveIn(rows, month) ==
    {rows[i].Email : i \in {j \in DOMAIN rows : rows[j].Date # NaT /\ MonthOf(rows[j].Date) = month}}

\* the months of the rows that have a date
MonthsCovered(rows) ==
    {MonthOf(rows[i].Date) : i \in {j \in DOMAIN rows : rows[j].Date # NaT}}

\* a retention row computed from the table for its two months
RetentionRowHolds(row, rows) ==
    /\ \E y \in 2025..2026 : \E m \in 1..12 :
          row.Month = MonthOf(Day(y, m, 1)) /\ row.Next_Month = FollowingMonth(y, m)
    /\ row.Active_Users = Cardinality(ActiveIn(rows, row.Month))
    /\ row.Retained_Users
         = Cardinality(ActiveIn(rows, row.Month) \cap ActiveIn(rows, row.Next_Month))
    /\ row.Retained_Users <= row.Active_Users
    /\ row.Retention_Rate.den > 0
    /\ IF row.Active_Users = 0 THEN row.Retention_Rate.num = 0
       ELSE row.Retention_Rate.num * row.Active_Users
              = 100 * row.Retained_Users * row.Retention_Rate.den

====
